---- MODULE Spec2Model ----
(***************************************************************************)
(* The end-to-end tests of "only show first available slot"                *)
(* (apps/web/playwright/only-show-first-available-slot.e2e.ts, two         *)
(* revisions of the file) as a state machine: every test is a process that *)
(* seeds rows through the persistence client, drives the booking page and  *)
(* asserts on what is rendered.  The database is the only state shared by  *)
(* tests that run in parallel.  The booking application itself (slot       *)
(* computation, rendering, user fixtures) is not part of the excerpt; it   *)
(* is modelled from the specification document (section 8 and glossary).   *)
(*                                                                         *)
(* Time is counted in minutes since 00:00 UTC of the first day of the      *)
(* current month; a day index is the number of whole days since then.      *)
(***************************************************************************)
EXTENDS Integers, Sequences, FiniteSets, TLC

\* ------------------------------------------------------------------ bounds
\* Number of tests the runner has in flight at once (mode: "parallel").
NumWorkers == 2

\* --------------------------------------------------- constants of the tests
OpenHour == 9
CloseHour == 17
EventLength == 30
BeforeBuffer == 30
AfterBuffer == 15
SeatsFull == 2
SeatsPartial == 3

MinutesPerDay == 24 * 60

Workers == 1..NumWorkers

\* The tests of part_000 (P*) and of only-show-first-available-slot.e2e.ts (E*).
Tests ==
  {"P_OneSlotAndBook", "P_BeforeBuffer", "P_AfterBuffer", "P_FirstBooked",
   "P_SeatsFull", "P_SeatsPartial", "P_Timezone",
   "E_SeatsFull", "E_SeatsPartial", "E_SeatedOneSlot",
   "E_RegularOneSlot", "E_FirstBooked", "E_AllowBooking"}

\* ----------------------------------------------------------------- strings
\* A string is a sequence of one-character strings.
DigitChars == <<"0", "1", "2", "3", "4", "5", "6", "7", "8", "9">>
Digit(n) == DigitChars[n + 1]

\* String(n) of JavaScript for 0 <= n <= 99.
NumberToString(n) ==
  IF n < 10 THEN <<Digit(n)>> ELSE <<Digit(n \div 10), Digit(n % 10)>>

TwoDigits(n) == <<Digit(n \div 10), Digit(n % 10)>>

\* haystack.includes(needle): needle occurs as a contiguous substring.
Contains(haystack, needle) ==
  \E i \in 0..(Len(haystack) - Len(needle)) :
    \A j \in 1..Len(needle) : haystack[i + j] = needle[j]

\* ---------------------------------------------------------------- calendar
DayOf(t) == t \div MinutesPerDay
MinuteOfDay(t) == t % MinutesPerDay

\* Day of month (1-based) and month (0 = current, 1 = next) of a day index,
\* for a current month of len days.
DayOfMonth(d, len) == IF d < len THEN d + 1 ELSE d - len + 1
MonthOf(d, len) == IF d < len THEN 0 ELSE 1

\* UTC offset in minutes of the two named zones the tests use.
ZoneOffset(zone, dst) ==
  CASE zone = "Europe/London" -> IF dst THEN 60 ELSE 0
    [] zone = "America/New_York" -> IF dst THEN 0 - 240 ELSE 0 - 300

\* Faulty variant: the 24-hour clock ("H:mm") instead of "h:mma".
FormatHMMA_24h(t, offset) ==
  LET m == MinuteOfDay(t + offset)
  IN  NumberToString(m \div 60) \o <<":">> \o TwoDigits(m % 60)
\* dayjs format "h:mma", lower-cased, of instant t seen at a UTC offset.
FormatHMMA(t, offset) ==
  LET m == MinuteOfDay(t + offset)
      h24 == m \div 60
      h12 == IF h24 % 12 = 0 THEN 12 ELSE h24 % 12
  IN  NumberToString(h12) \o <<":">> \o TwoDigits(m % 60)
        \o (IF h24 < 12 THEN <<"a", "m">> ELSE <<"p", "m">>)

\* The time part of an ISO-8601 UTC instant: "THH:MM:00".
DataTime(t) ==
  <<"T">> \o TwoDigits(MinuteOfDay(t) \div 60) \o <<":">>
    \o TwoDigits(MinuteOfDay(t) % 60) \o <<":", "0", "0">>

\* ------------------------------------------------------------- environment
\* What the run cannot choose: the clock, the test runner's UTC offset,
\* whether daylight saving time is in force in the named zones, and the
\* length of the current month.
VARIABLES env

\* Today's day of month together with the length of the current month.
Dates == {[dom |-> 9, len |-> 31], [dom |-> 31, len |-> 31], [dom |-> 30, len |-> 30]}
\* Minute of the (UTC) day at which the run happens: 02:00, 12:00 and 23:00.
ClockChoices == {2 * 60, 12 * 60, 23 * 60}
\* UTC offsets of the test runner's local time zone, in minutes.
RunnerOffsets == {0 - 300, 0, 330}

\* par: how many tests the runner keeps in flight.
Envs(par) ==
  {[now |-> (dt.dom - 1) * MinutesPerDay + c, tz |-> o, dst |-> s, len |-> dt.len,
    par |-> par] :
     dt \in Dates, c \in ClockChoices, o \in RunnerOffsets, s \in BOOLEAN}

\* ---------------------------------------------------------------- database
VARIABLES
  users,          \* rows of User: [id, schedule, timeZone]
  eventTypes,     \* rows of EventType
  bookings,       \* rows of Booking, attendees and seats held with the booking
  nextUserId,     \* autoincrement of User (and of its one EventType)
  nextBookingId   \* autoincrement of Booking

\* ------------------------------------------------------------------- tests
VARIABLES
  test,      \* test[w]: the test worker w runs, "none" before it picks one
  pc,        \* pc[w]: the step the test is at
  user,      \* user[w]: id of the user the test created (0: none)
  evt,       \* evt[w]: id of the event type the test uses (0: none)
  seeded,    \* seeded[w]: id of the booking the test seeded (0: none)
  found,     \* found[w]: attendees returned by prisma.attendee.findMany
  selDay,    \* selDay[w]: day index of the clicked day cell (-1: none)
  shown,     \* shown[w]: the rendered time slots, in page order
  zone,      \* zone[w]: the timezone selected on the booking page
  success,   \* success[w]: the booking success page is visible
  verdict    \* verdict[w]: "running", "passed" or "failed"

dbvars == <<users, eventTypes, bookings, nextUserId, nextBookingId>>
testvars == <<test, pc, user, evt, seeded, found, selDay, shown, zone, success, verdict>>
vars == <<env, users, eventTypes, bookings, nextUserId, nextBookingId,
          test, pc, user, evt, seeded, found, selDay, shown, zone, success, verdict>>

\* ------------------------------------------------------- schedule (part_000)
\* 9 AM - 5 PM, set with setUTCHours: minutes of the UTC day.
defaultDateRange == [start |-> OpenHour * 60, end |-> CloseHour * 60]
\* Array(7).fill([defaultDateRange]): the same range on every day of the week.
allDaysAvailable == [wd \in 0..6 |-> defaultDateRange]

\* The schedule users.create() gives a user when the test passes none.
FixtureDefaultSchedule == [wd \in 0..6 |-> [start |-> 9 * 60, end |-> 17 * 60]]
\* seatsPerTimeSlot of the event type createUserWithSeatedEventAndAttendees makes.
HelperSeatsPerTimeSlot == 10

\* --------------------------------------------- the application: slot engine
\* The engine reads a database db = [users, eventTypes, bookings] and the
\* current time; DB is the database as it stands.
DB == [users |-> users, eventTypes |-> eventTypes, bookings |-> bookings]

\* Weekday of a day index; day 0 is taken as weekday 0 (every schedule the
\* tests use is the same on all seven days).
Weekday(d) == d % 7

\* Slot starts a schedule yields on day d for events of the given length: the
\* grid starts at the opening time and steps by the event length.
ScheduleSlots(sched, len, d) ==
  LET r == sched[Weekday(d)]
  IN  {d * MinutesPerDay + r.start + k * len :
         k \in 0..(((r.end - r.start) \div len) - 1)}

Overlaps(a1, a2, b1, b2) == a1 < b2 /\ b1 < a2

HasEventType(db, id) == \E e \in db.eventTypes : e.id = id
EventTypeOf(db, id) == CHOOSE e \in db.eventTypes : e.id = id
HasUser(db, id) == \E u \in db.users : u.id = id
UserOf(db, id) == CHOOSE u \in db.users : u.id = id

\* The time a booking keeps busy: the booking with the buffers of its event
\* type on both sides.
BusyFrom(db, b) ==
  IF HasEventType(db, b.eventTypeId)
    THEN b.startTime - EventTypeOf(db, b.eventTypeId).beforeEventBuffer
    ELSE b.startTime
BusyTo(db, b) ==
  IF HasEventType(db, b.eventTypeId)
    THEN b.endTime + EventTypeOf(db, b.eventTypeId).afterEventBuffer
    ELSE b.endTime

\* A seated booking of the same event type with seats left keeps nothing busy.
HasSeatsLeft(et, b) ==
  /\ et.seatsPerTimeSlot > 0
  /\ b.eventTypeId = et.id
  /\ Len(b.attendees) < et.seatsPerTimeSlot

\* Slot start s of event type et is bookable: it lies in the future and the
\* slot with its buffers overlaps no busy time of an accepted booking of the host.
SlotFree(db, et, s) ==
  /\ s > env.now
  /\ \A b \in db.bookings :
       (b.userId = et.userId /\ b.status = "ACCEPTED") =>
         \/ HasSeatsLeft(et, b)
         \/ ~Overlaps(s - et.beforeEventBuffer, s + et.length + et.afterEventBuffer,
                      BusyFrom(db, b), BusyTo(db, b))

\* Attendees already seated on slot s of event type et.
SlotAttendees(db, et, s) ==
  LET bs == {b \in db.bookings :
               b.eventTypeId = et.id /\ b.status = "ACCEPTED" /\ b.startTime = s}
  IN  IF bs = {} THEN 0 ELSE Len((CHOOSE b \in bs : TRUE).attendees)

\* Bookable slot starts of et whose calendar date, seen at the booker's UTC
\* offset, is day d.
AvailableSlots(db, et, d, offset) ==
  IF ~HasUser(db, et.userId) THEN {}
  ELSE
    LET sched == UserOf(db, et.userId).schedule
        cand == ScheduleSlots(sched, et.length, d - 1)
                  \cup ScheduleSlots(sched, et.length, d)
                  \cup ScheduleSlots(sched, et.length, d + 1)
    IN  {s \in cand : DayOf(s + offset) = d /\ SlotFree(db, et, s)}

RECURSIVE SortedSeq(_)
SortedSeq(S) ==
  IF S = {} THEN <<>>
  ELSE LET m == CHOOSE x \in S : \A y \in S : x <= y
       IN  <<m>> \o SortedSeq(S \ {m})

\* The time slots the page renders for day d: all bookable slots in order, or
\* only the first of them when the event type has onlyShowFirstAvailableSlot.
RenderedSlots(db, et, d, offset) ==
  LET all == SortedSeq(AvailableSlots(db, et, d, offset))
  IN  IF et.onlyShowFirstAvailableSlot /\ Len(all) > 0 THEN <<all[1]>> ELSE all

\* The day cells of the displayed month with data-disabled="false", in
\* document order: the month shown is the month of today in the booker's
\* zone, and a day is enabled when it has a bookable slot.
EnabledDays(db, et, offset) ==
  LET today == DayOf(env.now + offset)
      last == IF MonthOf(today, env.len) = 0 THEN env.len - 1 ELSE env.len + 27
  IN  SortedSeq({d \in today..last : AvailableSlots(db, et, d, offset) # {}})

\* ------------------------------------------------ what each test provisions
InPart000(t) == t \in {"P_OneSlotAndBook", "P_BeforeBuffer", "P_AfterBuffer",
                       "P_FirstBooked", "P_SeatsFull", "P_SeatsPartial", "P_Timezone"}
UsesSeatedHelper(t) == t \in {"E_SeatsFull", "E_SeatsPartial", "E_SeatedOneSlot"}

\* The eventTypes entry each test of part_000 passes to users.create.
Options_P_OneSlotAndBook ==
  [length |-> EventLength, beforeEventBuffer |-> 0, afterEventBuffer |-> 0,
   seatsPerTimeSlot |-> 0, onlyShowFirstAvailableSlot |-> TRUE]
Options_P_BeforeBuffer ==
  [length |-> EventLength, beforeEventBuffer |-> BeforeBuffer, afterEventBuffer |-> 0,
   seatsPerTimeSlot |-> 0, onlyShowFirstAvailableSlot |-> TRUE]
Options_P_AfterBuffer ==
  [length |-> EventLength, beforeEventBuffer |-> 0, afterEventBuffer |-> AfterBuffer,
   seatsPerTimeSlot |-> 0, onlyShowFirstAvailableSlot |-> TRUE]
Options_P_FirstBooked ==
  [length |-> EventLength, beforeEventBuffer |-> 0, afterEventBuffer |-> 0,
   seatsPerTimeSlot |-> 0, onlyShowFirstAvailableSlot |-> TRUE]
Options_P_SeatsFull ==
  [length |-> EventLength, beforeEventBuffer |-> 0, afterEventBuffer |-> 0,
   seatsPerTimeSlot |-> SeatsFull, onlyShowFirstAvailableSlot |-> TRUE]
Options_P_SeatsPartial ==
  [length |-> EventLength, beforeEventBuffer |-> 0, afterEventBuffer |-> 0,
   seatsPerTimeSlot |-> SeatsPartial, onlyShowFirstAvailableSlot |-> TRUE]
Options_P_Timezone ==
  [length |-> EventLength, beforeEventBuffer |-> 0, afterEventBuffer |-> 0,
   seatsPerTimeSlot |-> 0, onlyShowFirstAvailableSlot |-> TRUE]

\* The "30-min" event type users.create() makes by default, and the "seats"
\* event type of createUserWithSeatedEventAndAttendees: the flag is off.
FixtureDefaultEventType ==
  [length |-> 30, beforeEventBuffer |-> 0, afterEventBuffer |-> 0,
   seatsPerTimeSlot |-> 0, onlyShowFirstAvailableSlot |-> FALSE]
HelperSeatedEventType ==
  [length |-> 30, beforeEventBuffer |-> 0, afterEventBuffer |-> 0,
   seatsPerTimeSlot |-> HelperSeatsPerTimeSlot, onlyShowFirstAvailableSlot |-> FALSE]

\* The event type a test has right after its user is created.
CreatedEventType(t) ==
  CASE t = "P_OneSlotAndBook" -> Options_P_OneSlotAndBook
    [] t = "P_BeforeBuffer" -> Options_P_BeforeBuffer
    [] t = "P_AfterBuffer" -> Options_P_AfterBuffer
    [] t = "P_FirstBooked" -> Options_P_FirstBooked
    [] t = "P_SeatsFull" -> Options_P_SeatsFull
    [] t = "P_SeatsPartial" -> Options_P_SeatsPartial
    [] t = "P_Timezone" -> Options_P_Timezone
    [] UsesSeatedHelper(t) -> HelperSeatedEventType
    [] OTHER -> FixtureDefaultEventType

\* The schedule of the created user: part_000 passes allDaysAvailable.
CreatedSchedule(t) == IF InPart000(t) THEN allDaysAvailable ELSE FixtureDefaultSchedule

\* prisma.eventType.update of the e2e file: the fields each test sets
\* (seatsPerTimeSlot 0: the field is not part of the update).
Update_E_SeatsFull == [seatsPerTimeSlot |-> SeatsFull, onlyShowFirstAvailableSlot |-> TRUE]
Update_E_SeatsPartial == [seatsPerTimeSlot |-> SeatsPartial, onlyShowFirstAvailableSlot |-> TRUE]
Update_E_SeatedOneSlot == [seatsPerTimeSlot |-> 0, onlyShowFirstAvailableSlot |-> TRUE]
\* Faulty variant: the update leaves the flag off.
Update_E_RegularOneSlot_FlagOff ==
  [seatsPerTimeSlot |-> 0, onlyShowFirstAvailableSlot |-> FALSE]
Update_E_RegularOneSlot == [seatsPerTimeSlot |-> 0, onlyShowFirstAvailableSlot |-> TRUE]
Update_E_FirstBooked == [seatsPerTimeSlot |-> 0, onlyShowFirstAvailableSlot |-> TRUE]
Update_E_AllowBooking == [seatsPerTimeSlot |-> 0, onlyShowFirstAvailableSlot |-> TRUE]

UpdateData(t) ==
  CASE t = "E_SeatsFull" -> Update_E_SeatsFull
    [] t = "E_SeatsPartial" -> Update_E_SeatsPartial
    [] t = "E_SeatedOneSlot" -> Update_E_SeatedOneSlot
    [] t = "E_RegularOneSlot" -> Update_E_RegularOneSlot
    [] t = "E_FirstBooked" -> Update_E_FirstBooked
    [] t = "E_AllowBooking" -> Update_E_AllowBooking

ApplyUpdate(et, data) ==
  [et EXCEPT !.seatsPerTimeSlot =
               IF data.seatsPerTimeSlot > 0 THEN data.seatsPerTimeSlot ELSE @,
             !.onlyShowFirstAvailableSlot = data.onlyShowFirstAvailableSlot]

\* Tests that seed an ACCEPTED booking on the first slot, and its attendees.
SeedsBooking(t) ==
  t \in {"P_BeforeBuffer", "P_AfterBuffer", "P_FirstBooked", "P_SeatsFull",
         "P_SeatsPartial", "E_SeatsFull", "E_SeatsPartial", "E_FirstBooked"}
SeedAttendees(t) ==
  CASE t \in {"P_SeatsFull", "E_SeatsFull"} ->
         <<"attendee1@seats.com", "attendee2@seats.com">>
    [] t \in {"P_SeatsPartial", "E_SeatsPartial"} -> <<"attendee1@seats.com">>
    [] OTHER -> <<>>

\* new Date(); setDate(getDate() + 1): the runner-local tomorrow, as a day index.
LocalTomorrow(e) == DayOf(e.now + e.tz) + 1
\* tomorrow.setHours(9, 0, 0, 0): 09:00 of that day in the runner's local time.
SeedStartTime(e) == LocalTomorrow(e) * MinutesPerDay + 9 * 60 - e.tz
\* Faulty variant: the seeded booking is made an hour long.
SeedEndTime_Hour(start) == start + 60
\* firstSlotEnd.setMinutes(firstSlotEnd.getMinutes() + 30)
SeedEndTime(start) == start + 30
\* tomorrow.getDate(): the day of month the day locator looks for.
TomorrowDate(e) == DayOfMonth(LocalTomorrow(e), e.len)

\* ------------------------------------------------------ what each test asserts
\* expect(await timeSlots.count()): "one" toBe(1), "some" toBeGreaterThan(0),
\* "any" no assertion on the count.
ExpectedCount(t) ==
  CASE t \in {"P_SeatsPartial", "E_SeatsPartial", "E_AllowBooking"} -> "any"
    [] t = "E_SeatsFull" -> "some"
    [] OTHER -> "one"

\* expect(slotTime).toContain(...)
ExpectedTime(t) ==
  CASE t \in {"P_BeforeBuffer", "P_AfterBuffer"} -> <<"1", "0", ":", "0", "0">>
    [] t \in {"P_FirstBooked", "P_SeatsFull", "E_SeatsFull", "E_FirstBooked"} ->
         <<"9", ":", "3", "0">>
    [] OTHER -> <<"9", ":", "0", "0">>

\* Tests that expect the text "Seats available".
ExpectsSeatsAvailable(t) == t \in {"P_SeatsPartial", "E_SeatsPartial"}

\* Tests that click the shown slot and submit the booking form, and the email they give.
BooksSlot(t) == t \in {"P_OneSlotAndBook", "P_SeatsFull", "E_SeatsFull", "E_AllowBooking"}
BookerEmail(t) ==
  IF t \in {"P_SeatsFull", "E_SeatsFull"} THEN "new@seats.com" ELSE "test@example.com"

\* The day cell the locator resolves to among the enabled cells (a sequence
\* of day indexes in document order); -1 when it resolves to none.
\* part_000: getByText(String(tomorrowDate), {exact: true}).
LocateExact(cells, date, len) ==
  LET hits == {i \in 1..Len(cells) :
                 NumberToString(DayOfMonth(cells[i], len)) = NumberToString(date)}
  IN  IF Cardinality(hits) = 1 THEN cells[CHOOSE i \in hits : TRUE] ELSE 0 - 1
\* e2e file: filter({hasText: String(tomorrowDate)}).first().
LocateHasTextFirst(cells, date, len) ==
  LET hits == {i \in 1..Len(cells) :
                 Contains(NumberToString(DayOfMonth(cells[i], len)), NumberToString(date))}
  IN  IF hits # {} THEN cells[CHOOSE i \in hits : \A j \in hits : i <= j] ELSE 0 - 1
LocateDay(t, cells, date, len) ==
  IF InPart000(t) THEN LocateExact(cells, date, len)
  ELSE LocateHasTextFirst(cells, date, len)

\* ------------------------------------------------------------ the page
\* The timezone of the browser the tests drive.
BrowserZone == "Europe/London"

\* One rendered time slot: its data-time attribute, its text in the selected
\* zone, and whether it carries "Seats available".
RenderSlot(db, et, s, z) ==
  [time |-> s,
   dataTime |-> DataTime(s),
   text |-> FormatHMMA(s, ZoneOffset(z, env.dst)),
   seatsAvailable |-> et.seatsPerTimeSlot > 0
                        /\ SlotAttendees(db, et, s) < et.seatsPerTimeSlot]

\* The [data-testid="time"] elements for day d in zone z.
RenderPage(db, et, d, z) ==
  LET r == RenderedSlots(db, et, d, ZoneOffset(z, env.dst))
  IN  [i \in 1..Len(r) |-> RenderSlot(db, et, r[i], z)]

\* tomorrow.utc().hour(9).minute(0) formatted "h:mma" in zone z (part_000, P_Timezone).
ExpectedZoneText(e, z) ==
  FormatHMMA(DayOf(e.now + MinutesPerDay) * MinutesPerDay + 9 * 60, ZoneOffset(z, e.dst))

\* ------------------------------------------------------------ rows seeded
UserRow(t, id, w) ==
  [id |-> id, schedule |-> CreatedSchedule(t), timeZone |-> "Europe/London", owner |-> w]

EventTypeRow(t, id, uid, w) ==
  LET o == CreatedEventType(t)
  IN  [id |-> id, userId |-> uid, length |-> o.length,
       beforeEventBuffer |-> o.beforeEventBuffer,
       afterEventBuffer |-> o.afterEventBuffer,
       seatsPerTimeSlot |-> o.seatsPerTimeSlot,
       onlyShowFirstAvailableSlot |-> o.onlyShowFirstAvailableSlot, owner |-> w]

\* Faulty variant: the booking is seeded for a fixed user id instead of user.id.
SeedRow_FixedUser(t, id, uid, etid, e, w) ==
  [id |-> id, userId |-> 1, eventTypeId |-> etid, status |-> "ACCEPTED",
   startTime |-> SeedStartTime(e), endTime |-> SeedEndTime(SeedStartTime(e)),
   attendees |-> SeedAttendees(t), seats |-> 0, owner |-> w]
\* Faulty variant: the booking is seeded for another event type than the test's.
SeedRow_OtherEventType(t, id, uid, etid, e, w) ==
  [id |-> id, userId |-> uid, eventTypeId |-> 0, status |-> "ACCEPTED",
   startTime |-> SeedStartTime(e), endTime |-> SeedEndTime(SeedStartTime(e)),
   attendees |-> SeedAttendees(t), seats |-> 0, owner |-> w]
\* bookings.create(user.id, user.username, eventType.id, {status, startTime, endTime, attendees})
SeedRow(t, id, uid, etid, e, w) ==
  [id |-> id, userId |-> uid, eventTypeId |-> etid, status |-> "ACCEPTED",
   startTime |-> SeedStartTime(e), endTime |-> SeedEndTime(SeedStartTime(e)),
   attendees |-> SeedAttendees(t), seats |-> 0, owner |-> w]

\* The booking the application stores when the booking form is submitted.
BookedRow(id, et, s, email, w) ==
  [id |-> id, userId |-> et.userId, eventTypeId |-> et.id, status |-> "ACCEPTED",
   startTime |-> s, endTime |-> s + et.length,
   attendees |-> <<email>>, seats |-> IF et.seatsPerTimeSlot > 0 THEN 1 ELSE 0,
   owner |-> w]

\* ------------------------------------------------------------------ steps
AfterProvision(t) == IF SeedsBooking(t) THEN "seed" ELSE "goto"

\* The runner hands the next test of the files to a free worker.
StartTest(w, t) ==
  /\ test[w] = "none"
  /\ w <= env.par
  /\ test' = [test EXCEPT ![w] = t]
  /\ pc' = [pc EXCEPT ![w] = "create"]
  /\ UNCHANGED <<env, dbvars, user, evt, seeded, found, selDay, shown, zone, success, verdict>>

\* users.create(...) / createUserWithSeatedEventAndAttendees(...)
CreateUser(w) ==
  /\ pc[w] = "create"
  /\ users' = users \cup {UserRow(test[w], nextUserId, w)}
  /\ eventTypes' = eventTypes \cup {EventTypeRow(test[w], nextUserId, nextUserId, w)}
  /\ nextUserId' = nextUserId + 1
  /\ user' = [user EXCEPT ![w] = nextUserId]
  /\ evt' = [evt EXCEPT ![w] = nextUserId]
  /\ pc' = [pc EXCEPT ![w] = IF InPart000(test[w]) THEN AfterProvision(test[w]) ELSE "update"]
  /\ UNCHANGED <<env, bookings, nextBookingId, test, seeded, found, selDay, shown, zone,
                 success, verdict>>

\* prisma.eventType.update({data, where: {id: eventType.id}})
UpdateEventType(w) ==
  /\ pc[w] = "update"
  /\ eventTypes' = {IF e.id = evt[w] THEN ApplyUpdate(e, UpdateData(test[w])) ELSE e :
                      e \in eventTypes}
  /\ pc' = [pc EXCEPT ![w] = AfterProvision(test[w])]
  /\ UNCHANGED <<env, users, bookings, nextUserId, nextBookingId, test, user, evt, seeded,
                 found, selDay, shown, zone, success, verdict>>

\* bookings.create(...)
SeedBooking(w) ==
  /\ pc[w] = "seed"
  /\ bookings' = bookings \cup {SeedRow(test[w], nextBookingId, user[w], evt[w], env, w)}
  /\ nextBookingId' = nextBookingId + 1
  /\ seeded' = [seeded EXCEPT ![w] = nextBookingId]
  /\ pc' = [pc EXCEPT ![w] = IF SeedAttendees(test[w]) # <<>> THEN "find" ELSE "goto"]
  /\ UNCHANGED <<env, users, eventTypes, nextUserId, test, user, evt, found, selDay, shown,
                 zone, success, verdict>>

\* prisma.attendee.findMany({where: {bookingId: seatedBooking.id}})
FindAttendees(w) ==
  /\ pc[w] = "find"
  /\ found' = [found EXCEPT ![w] =
                 IF \E b \in bookings : b.id = seeded[w]
                   THEN (CHOOSE b \in bookings : b.id = seeded[w]).attendees
                   ELSE <<>>]
  /\ pc' = [pc EXCEPT ![w] = "seats"]
  /\ UNCHANGED <<env, dbvars, test, user, evt, seeded, selDay, shown, zone, success, verdict>>

\* prisma.bookingSeat.createMany: one seat per attendee found.
CreateSeats(w) ==
  /\ pc[w] = "seats"
  /\ bookings' = {IF b.id = seeded[w] THEN [b EXCEPT !.seats = Len(found[w])] ELSE b :
                    b \in bookings}
  /\ pc' = [pc EXCEPT ![w] = "goto"]
  /\ UNCHANGED <<env, users, eventTypes, nextUserId, nextBookingId, test, user, evt, seeded,
                 found, selDay, shown, zone, success, verdict>>

\* page.goto(`/${user.username}/<slug>`)
Goto(w) ==
  /\ pc[w] = "goto"
  /\ zone' = [zone EXCEPT ![w] = BrowserZone]
  /\ pc' = [pc EXCEPT ![w] = "clickDay"]
  /\ UNCHANGED <<env, dbvars, test, user, evt, seeded, found, selDay, shown, success, verdict>>

\* tomorrowDay.waitFor(); tomorrowDay.click(): the test fails when the locator
\* resolves to no enabled cell; otherwise the page renders the day's slots.
ClickDay(w) ==
  /\ pc[w] = "clickDay"
  /\ LET has == HasEventType(DB, evt[w])
         off == ZoneOffset(zone[w], env.dst)
         day == IF has
                  THEN LocateDay(test[w], EnabledDays(DB, EventTypeOf(DB, evt[w]), off),
                                 TomorrowDate(env), env.len)
                  ELSE 0 - 1
     IN  IF day < 0
           THEN /\ verdict' = [verdict EXCEPT ![w] = "failed"]
                /\ pc' = [pc EXCEPT ![w] = "teardown"]
                /\ UNCHANGED <<selDay, shown>>
           ELSE /\ selDay' = [selDay EXCEPT ![w] = day]
                /\ shown' = [shown EXCEPT ![w] =
                               RenderPage(DB, EventTypeOf(DB, evt[w]), day, zone[w])]
                /\ pc' = [pc EXCEPT ![w] = "observe"]
                /\ UNCHANGED verdict
  /\ UNCHANGED <<env, dbvars, test, user, evt, seeded, found, zone, success>>

\* The assertions a test makes on the rendered slots right after the click:
\* first slot visible, the count, "Seats available", the data-time attribute,
\* and for P_Timezone the text in Europe/London instead of data-time.
AssertionsHold(t, page, e) ==
  /\ Len(page) > 0
  /\ ExpectedCount(t) = "one" => Len(page) = 1
  /\ ExpectsSeatsAvailable(t) => \E i \in 1..Len(page) : page[i].seatsAvailable
  /\ t # "P_Timezone" => Contains(page[1].dataTime, ExpectedTime(t))
  /\ t = "P_Timezone" => Contains(page[1].text, ExpectedZoneText(e, "Europe/London"))

\* After the timezone change: still one slot, text in America/New_York.
ZoneAssertionsHold(page, e) ==
  /\ Len(page) = 1
  /\ Contains(page[1].text, ExpectedZoneText(e, "America/New_York"))

AfterObserve(t) ==
  IF t = "P_Timezone" THEN "changeTz" ELSE IF BooksSlot(t) THEN "book" ELSE "teardown"

\* expect(timeSlots.first()).toBeVisible(); expect(count); expect(slotTime).toContain(...)
Observe(w) ==
  /\ pc[w] = "observe"
  /\ IF AssertionsHold(test[w], shown[w], env)
       THEN /\ pc' = [pc EXCEPT ![w] = AfterObserve(test[w])]
            /\ verdict' = [verdict EXCEPT ![w] =
                             IF AfterObserve(test[w]) = "teardown" THEN "passed" ELSE @]
       ELSE /\ pc' = [pc EXCEPT ![w] = "teardown"]
            /\ verdict' = [verdict EXCEPT ![w] = "failed"]
  /\ UNCHANGED <<env, dbvars, test, user, evt, seeded, found, selDay, shown, zone, success>>

\* The booker picks America/New_York in the timezone select; the page renders
\* the selected day's slots again for the new zone.
ChangeTimezone(w) ==
  /\ pc[w] = "changeTz"
  /\ zone' = [zone EXCEPT ![w] = "America/New_York"]
  /\ shown' = [shown EXCEPT ![w] =
                 IF HasEventType(DB, evt[w])
                   THEN RenderPage(DB, EventTypeOf(DB, evt[w]), selDay[w], "America/New_York")
                   ELSE <<>>]
  /\ pc' = [pc EXCEPT ![w] = "observeTz"]
  /\ UNCHANGED <<env, dbvars, test, user, evt, seeded, found, selDay, success, verdict>>

ObserveTimezone(w) ==
  /\ pc[w] = "observeTz"
  /\ verdict' = [verdict EXCEPT ![w] =
                   IF ZoneAssertionsHold(shown[w], env) THEN "passed" ELSE "failed"]
  /\ pc' = [pc EXCEPT ![w] = "teardown"]
  /\ UNCHANGED <<env, dbvars, test, user, evt, seeded, found, selDay, shown, zone, success>>

\* Faulty variant: the test clicks the slot but never submits the booking form.
BookSlot_NoSubmit(w) ==
  /\ pc[w] = "book"
  /\ pc' = [pc EXCEPT ![w] = "teardown"]
  /\ verdict' = [verdict EXCEPT ![w] = "failed"]
  /\ UNCHANGED <<env, dbvars, test, user, evt, seeded, found, selDay, shown, zone, success>>

\* timeSlots.first().click(); bookTimeSlot(page, {name, email}); the success
\* page shows when the application accepts the booking, which it does while
\* the slot is still bookable.  A seated booking joins the slot's booking.
BookSlot(w) ==
  /\ pc[w] = "book"
  /\ LET has == HasEventType(DB, evt[w])
         s == shown[w][1].time
         ok == has /\ SlotFree(DB, EventTypeOf(DB, evt[w]), s)
         et == EventTypeOf(DB, evt[w])
         same == {b \in bookings : b.eventTypeId = evt[w] /\ b.status = "ACCEPTED"
                                     /\ b.startTime = s /\ et.seatsPerTimeSlot > 0}
     IN  IF ok
           THEN /\ IF same # {}
                     THEN /\ bookings' =
                               {IF b \in same
                                  THEN [b EXCEPT !.attendees = Append(@, BookerEmail(test[w])),
                                                 !.seats = @ + 1]
                                  ELSE b : b \in bookings}
                          /\ UNCHANGED nextBookingId
                     ELSE /\ bookings' = bookings \cup
                               {BookedRow(nextBookingId, et, s, BookerEmail(test[w]), w)}
                          /\ nextBookingId' = nextBookingId + 1
                /\ success' = [success EXCEPT ![w] = TRUE]
                /\ verdict' = [verdict EXCEPT ![w] = "passed"]
           ELSE /\ UNCHANGED <<bookings, nextBookingId, success>>
                /\ verdict' = [verdict EXCEPT ![w] = "failed"]
  /\ pc' = [pc EXCEPT ![w] = "teardown"]
  /\ UNCHANGED <<env, users, eventTypes, nextUserId, test, user, evt, seeded, found, selDay,
                 shown, zone>>

\* Faulty variant: deleteAll empties the user table instead of the fixture's store.
Teardown_DeleteEveryUser(w) ==
  /\ pc[w] = "teardown"
  /\ users' = {}
  /\ eventTypes' = {}
  /\ bookings' = {}
  /\ pc' = [pc EXCEPT ![w] = "done"]
  /\ UNCHANGED <<env, nextUserId, nextBookingId, test, user, evt, seeded, found, selDay,
                 shown, zone, success, verdict>>

\* test.afterEach(({users}) => users.deleteAll()): the users this test's
\* fixture created go, and with them their event types and bookings.
Teardown(w) ==
  /\ pc[w] = "teardown"
  /\ users' = {u \in users : u.id # user[w]}
  /\ eventTypes' = {e \in eventTypes : e.userId # user[w]}
  /\ bookings' = {b \in bookings : b.userId # user[w]}
  /\ pc' = [pc EXCEPT ![w] = "done"]
  /\ UNCHANGED <<env, nextUserId, nextBookingId, test, user, evt, seeded, found, selDay,
                 shown, zone, success, verdict>>

\* ---------------------------------------------------------- specification
InitState(par) ==
  /\ env \in Envs(par)
  /\ users = {}
  /\ eventTypes = {}
  /\ bookings = {}
  /\ nextUserId = 1
  /\ nextBookingId = 1
  /\ test = [w \in Workers |-> "none"]
  /\ pc = [w \in Workers |-> "idle"]
  /\ user = [w \in Workers |-> 0]
  /\ evt = [w \in Workers |-> 0]
  /\ seeded = [w \in Workers |-> 0]
  /\ found = [w \in Workers |-> <<>>]
  /\ selDay = [w \in Workers |-> 0 - 1]
  /\ shown = [w \in Workers |-> <<>>]
  /\ zone = [w \in Workers |-> BrowserZone]
  /\ success = [w \in Workers |-> FALSE]
  /\ verdict = [w \in Workers |-> "running"]

\* One test at a time.
Init == InitState(1)

Next ==
  \E w \in Workers :
    \/ \E t \in Tests : StartTest(w, t)
    \/ CreateUser(w)
    \/ UpdateEventType(w)
    \/ SeedBooking(w)
    \/ FindAttendees(w)
    \/ CreateSeats(w)
    \/ Goto(w)
    \/ ClickDay(w)
    \/ Observe(w)
    \/ ChangeTimezone(w)
    \/ ObserveTimezone(w)
    \/ BookSlot(w)
    \/ Teardown(w)

Spec == Init /\ [][Next]_vars

\* The runner never abandons a test: a test that has clicked the slot goes on
\* to submit the booking form (every step of a test is awaited in turn).
SpecFair == Spec /\ \A w \in Workers : WF_vars(BookSlot(w))

\* NumWorkers tests in flight at once, mid-month and outside daylight saving
\* time (the calendar plays no part in how tests share the database).
InitPar ==
  /\ InitState(NumWorkers)
  /\ env.len = 31
  /\ DayOf(env.now) = 8
  /\ MinuteOfDay(env.now) = 12 * 60
  /\ ~env.dst

SpecPar == InitPar /\ [][Next]_vars

\* afterEach runs after every test, passed or failed: a test whose body has
\* ended is never left without its teardown.
SpecParFair == SpecPar /\ \A w \in Workers : WF_vars(Teardown(w))

\* ------------------------------------------------------------------ claims
\* The test of worker w is looking at the slots of the day it clicked, and has
\* not yet booked or torn down.
OnSlots(w) ==
  /\ selDay[w] >= 0
  /\ pc[w] \in {"observe", "changeTz", "observeTz", "book"}
  /\ HasEventType(DB, evt[w])

\* 09:00, 09:30 and 10:00 UTC of day d.
NineOClock(d) == d * MinutesPerDay + 9 * 60
HalfPastNine(d) == d * MinutesPerDay + 9 * 60 + 30
TenOClock(d) == d * MinutesPerDay + 10 * 60

\* Accepted bookings of the test's user that start at 09:00 of the selected day.
BookingsAtOpening(w) ==
  {b \in bookings : b.userId = user[w] /\ b.status = "ACCEPTED"
                      /\ b.startTime = NineOClock(selDay[w])}

\* The page shows exactly the one slot that starts at instant s.
ShowsOnly(w, s) == Len(shown[w]) = 1 /\ shown[w][1].time = s

IsPlain(et) ==
  /\ et.length = 30
  /\ et.seatsPerTimeSlot = 0
  /\ et.beforeEventBuffer = 0
  /\ et.afterEventBuffer = 0

\* C1: every test renders its day with onlyShowFirstAvailableSlot enabled, and
\* the list of time slots of the selected day then holds exactly one slot,
\* for regular and seated events and whatever bookings the day carries.
C1_ExactlyOneSlot ==
  \A w \in Workers :
    OnSlots(w) =>
      /\ EventTypeOf(DB, evt[w]).onlyShowFirstAvailableSlot
      /\ Len(shown[w]) = 1
      /\ shown[w][1].time \in
           AvailableSlots(DB, EventTypeOf(DB, evt[w]), selDay[w],
                          ZoneOffset(zone[w], env.dst))

\* C1 witness: a seated event whose first slot is at capacity shows one slot.
C1_Witness ==
  \E w \in Workers :
    /\ OnSlots(w)
    /\ EventTypeOf(DB, evt[w]).seatsPerTimeSlot = 2
    /\ \E b \in BookingsAtOpening(w) : Len(b.attendees) = 2
    /\ Len(shown[w]) = 1

\* C2: for a non-seated 30-minute event with no buffers and no booking on the
\* selected day, the single slot shown is the schedule's opening time, 09:00.
C2_OpeningTimeShown ==
  \A w \in Workers :
    (/\ OnSlots(w)
     /\ IsPlain(EventTypeOf(DB, evt[w]))
     /\ ~\E b \in bookings :
           /\ b.userId = user[w]
           /\ DayOf(b.startTime + ZoneOffset(zone[w], env.dst)) = selDay[w])
      => ShowsOnly(w, NineOClock(selDay[w]))

\* C3: for a non-seated event with no buffers, an accepted booking on the
\* opening slot of the selected day shifts the single slot shown by the event
\* length: 09:30 is shown and 09:00 is not.
C3_ShiftedByEventLength ==
  \A w \in Workers :
    (OnSlots(w) /\ IsPlain(EventTypeOf(DB, evt[w])) /\ BookingsAtOpening(w) # {})
      => /\ ShowsOnly(w, HalfPastNine(selDay[w]))
         /\ \A i \in 1..Len(shown[w]) : shown[w][i].time # NineOClock(selDay[w])

C3_Witness ==
  \E w \in Workers :
    /\ test[w] = "P_FirstBooked"
    /\ OnSlots(w)
    /\ BookingsAtOpening(w) # {}
    /\ ShowsOnly(w, HalfPastNine(selDay[w]))

\* C4: with beforeEventBuffer = 30 on a 30-minute event and an accepted
\* booking at 09:00-09:30, the single slot shown is 10:00; 09:30 is not offered.
C4_BeforeBufferShowsTen ==
  \A w \in Workers :
    (/\ OnSlots(w)
     /\ EventTypeOf(DB, evt[w]).length = 30
     /\ EventTypeOf(DB, evt[w]).seatsPerTimeSlot = 0
     /\ EventTypeOf(DB, evt[w]).beforeEventBuffer = 30
     /\ EventTypeOf(DB, evt[w]).afterEventBuffer = 0
     /\ BookingsAtOpening(w) # {})
      => ShowsOnly(w, TenOClock(selDay[w]))

C4_Witness ==
  \E w \in Workers :
    /\ test[w] = "P_BeforeBuffer"
    /\ OnSlots(w)
    /\ EventTypeOf(DB, evt[w]).beforeEventBuffer = 30
    /\ BookingsAtOpening(w) # {}
    /\ ShowsOnly(w, TenOClock(selDay[w]))

C6_FullSlotNotOffered ==
  \A w \in Workers :
    OnSlots(w) =>
      LET et == EventTypeOf(DB, evt[w])
      IN  /\ et.seatsPerTimeSlot > 0 =>
               \A i \in 1..Len(shown[w]) :
                 SlotAttendees(DB, et, shown[w][i].time) < et.seatsPerTimeSlot
          /\ (/\ et.seatsPerTimeSlot = 2
              /\ \E b \in BookingsAtOpening(w) :
                   b.eventTypeId = evt[w] /\ Len(b.attendees) = 2)
               => ShowsOnly(w, HalfPastNine(selDay[w]))

C6_NewAttendeeBooks ==
  \A w \in Workers :
    (test[w] \in {"P_SeatsFull", "E_SeatsFull"} /\ pc[w] = "book" /\ pc'[w] # "book")
      => /\ success'[w]
         /\ \E b \in bookings' :
              /\ b.eventTypeId = evt[w]
              /\ b.startTime = shown[w][1].time
              /\ b.attendees = <<"new@seats.com">>

C6_SeatCapacity == []C6_FullSlotNotOffered /\ [][C6_NewAttendeeBooks]_vars

C6_Witness ==
  \E w \in Workers :
    /\ test[w] = "P_SeatsFull"
    /\ success[w]
    /\ \E b \in bookings :
         /\ b.startTime = HalfPastNine(selDay[w])
         /\ b.attendees = <<"new@seats.com">>
    /\ \E b \in BookingsAtOpening(w) : Len(b.attendees) = 2

\* C7: a seated slot with at least one seat taken and fewer than
\* seatsPerTimeSlot attendees stays the first offered slot and is marked as
\* having seats available (seatsPerTimeSlot = 3, one attendee at 09:00).
C7_PartialSlotStays ==
  \A w \in Workers :
    (/\ OnSlots(w)
     /\ EventTypeOf(DB, evt[w]).seatsPerTimeSlot > 0
     /\ \E b \in BookingsAtOpening(w) :
          /\ Len(b.attendees) >= 1
          /\ Len(b.attendees) < EventTypeOf(DB, evt[w]).seatsPerTimeSlot)
      => /\ Len(shown[w]) >= 1
         /\ shown[w][1].time = NineOClock(selDay[w])
         /\ shown[w][1].seatsAvailable

C7_Witness ==
  \E w \in Workers :
    /\ test[w] = "E_SeatsPartial"
    /\ OnSlots(w)
    /\ EventTypeOf(DB, evt[w]).seatsPerTimeSlot = 3
    /\ \E b \in BookingsAtOpening(w) : Len(b.attendees) = 1
    /\ shown[w][1].time = NineOClock(selDay[w])
    /\ shown[w][1].seatsAvailable

\* C8: the single slot shown for a regular event with no prior bookings is
\* bookable: once the test selects it and submits the form, the success page
\* is eventually reached.
C8_ShownSlotBookable ==
  \A w \in Workers :
    (test[w] \in {"P_OneSlotAndBook", "E_AllowBooking"} /\ pc[w] = "book")
      ~> success[w]

C8_Witness ==
  \E w \in Workers :
    /\ test[w] = "E_AllowBooking"
    /\ success[w]
    /\ \E b \in bookings :
         b.startTime = shown[w][1].time /\ b.attendees = <<"test@example.com">>

\* C9: around the change of the selected timezone from Europe/London to
\* America/New_York the page shows exactly one slot, the same instant (09:00
\* UTC of the selected day, which bears tomorrow's date), and its text is that
\* instant in the selected zone: 9:00am (10:00am in summer time) before the
\* change, 4:00am (5:00am) after it.
C9_TextInSelectedZone ==
  \A w \in Workers :
    (test[w] = "P_Timezone" /\ pc[w] \in {"changeTz", "observeTz"})
      => /\ ShowsOnly(w, NineOClock(selDay[w]))
         /\ DayOfMonth(selDay[w], env.len) = TomorrowDate(env)
         /\ pc[w] = "changeTz" =>
              /\ zone[w] = "Europe/London"
              /\ shown[w][1].text =
                   IF env.dst THEN <<"1", "0", ":", "0", "0", "a", "m">>
                   ELSE <<"9", ":", "0", "0", "a", "m">>
         /\ pc[w] = "observeTz" =>
              /\ zone[w] = "America/New_York"
              /\ shown[w][1].text =
                   IF env.dst THEN <<"5", ":", "0", "0", "a", "m">>
                   ELSE <<"4", ":", "0", "0", "a", "m">>

C9_Witness ==
  \E w \in Workers :
    /\ test[w] = "P_Timezone"
    /\ pc[w] = "observeTz"
    /\ zone[w] = "America/New_York"
    /\ shown[w][1].text = <<"4", ":", "0", "0", "a", "m">>

\* The rows the test of worker w seeded or created itself.
OwnDB(w) ==
  [users |-> {u \in users : u.owner = w},
   eventTypes |-> {e \in eventTypes : e.owner = w},
   bookings |-> {b \in bookings : b.owner = w}]

\* C10: tests in flight together do not interfere: in every interleaving each
\* row a test reads (its user, its event type, the bookings of that user, the
\* attendees of its seeded booking) was made by that test, and the day it
\* selects and the slots it sees are those its own rows alone give.
C10_NoInterference ==
  \A w \in Workers :
    /\ user[w] # 0 =>
         /\ \A u \in users : u.id = user[w] => u.owner = w
         /\ \A e \in eventTypes : (e.userId = user[w] \/ e.id = evt[w]) => e.owner = w
         /\ \A b \in bookings :
              (b.userId = user[w] \/ b.eventTypeId = evt[w] \/ b.id = seeded[w])
                => b.owner = w
    /\ pc[w] = "seats" => found[w] = SeedAttendees(test[w])
    /\ OnSlots(w) =>
         /\ HasEventType(OwnDB(w), evt[w])
         /\ selDay[w] =
              LocateDay(test[w],
                        EnabledDays(OwnDB(w), EventTypeOf(OwnDB(w), evt[w]),
                                    ZoneOffset(BrowserZone, env.dst)),
                        TomorrowDate(env), env.len)
         /\ shown[w] =
              RenderPage(OwnDB(w), EventTypeOf(OwnDB(w), evt[w]), selDay[w], zone[w])

\* C10 witness: two tests look at their slots at the same time, one with a
\* seeded booking on its first slot and one without, and see different slots.
C10_Witness ==
  \E w1, w2 \in Workers :
    /\ w1 # w2
    /\ OnSlots(w1) /\ OnSlots(w2)
    /\ test[w1] = "P_FirstBooked" /\ test[w2] = "P_OneSlotAndBook"
    /\ BookingsAtOpening(w1) # {}
    /\ ShowsOnly(w1, HalfPastNine(selDay[w1]))
    /\ ShowsOnly(w2, NineOClock(selDay[w2]))

\* The test of worker w has ended, passed or failed, and afterEach is due.
Finished(w) == pc[w] = "teardown"
\* The users the test of worker w created that are still in the database.
UsersOf(w) == {u \in users : u.owner = w}

\* The teardown step of worker w removes every user of w and no other user.
C11_DeletesOwnOnly ==
  \A w \in Workers :
    (pc[w] = "teardown" /\ pc'[w] = "done") =>
      /\ {u \in users' : u.owner = w} = {}
      /\ \A u \in users : u.owner # w => u \in users'

\* C11: after every test finishes, passed or failed, the users it created are
\* deleted, and the teardown of one test deletes no user of another test.
C11_TeardownOwnUsers ==
  /\ [][C11_DeletesOwnOnly]_vars
  /\ \A w \in Workers : Finished(w) ~> (pc[w] = "done" /\ UsersOf(w) = {})

\* C11 witness: a failed test has been torn down and its user is gone while a
\* test started in parallel is still at work on its own user.
C11_Witness ==
  \E w1, w2 \in Workers :
    /\ w1 # w2
    /\ pc[w1] = "done" /\ verdict[w1] = "failed" /\ user[w1] # 0
    /\ UsersOf(w1) = {}
    /\ pc[w2] \in {"goto", "clickDay", "observe", "book"}
    /\ UsersOf(w2) # {}

\* The test of worker w is past tomorrowDay.click(), or failed on it.
PastClick(w) == pc[w] \in {"observe", "changeTz", "observeTz", "book", "teardown", "done"}

\* C12: on every current date, the last day of a month included, the day cell
\* a test clicks is an enabled cell and is the cell of tomorrow's calendar
\* date: never no cell, today's cell or another day's cell.
C12_ClicksTomorrow ==
  \A w \in Workers :
    PastClick(w) =>
      /\ selDay[w] >= 0
      /\ selDay[w] = LocalTomorrow(env)

\* The booking the test of worker w seeded, while it is in the database.
SeededBookings(w) == {b \in bookings : b.id = seeded[w] /\ seeded[w] # 0}

\* C13: for every offset of the runner's time zone the seeded booking covers
\* exactly the first slot of the day the test selects: it starts at the
\* opening of the schedule (09:00 UTC) of tomorrow, lasts one event length,
\* and lies on the calendar day of the clicked cell.
C13_SeedCoversFirstSlot ==
  \A w \in Workers :
    \A b \in SeededBookings(w) :
      /\ b.startTime = LocalTomorrow(env) * MinutesPerDay + OpenHour * 60
      /\ b.endTime = b.startTime + EventLength
      /\ OnSlots(w) =>
           /\ b.startTime = NineOClock(selDay[w])
           /\ DayOf(b.startTime + ZoneOffset(zone[w], env.dst)) = selDay[w]

====
